---- MODULE Spec2Model ----
(***************************************************************************)
(* Model of go_back_n.py: a stop-and-wait (alternating bit) Transmitter    *)
(* and Receiver, the driver loops of its four tests, and the two classes   *)
(* called on their own with arbitrary arguments.                           *)
(***************************************************************************)
EXTENDS Integers, Sequences, FiniteSets, TLC

VARIABLES
    payload,              \* Transmitter.payload
    message_counter,      \* Transmitter.message_counter
    received_data,        \* Receiver.received_data (a Python list)
    data_offset,          \* Receiver.data_offset
    last_message_num,     \* Receiver.last_message_num
    last_data_offset,     \* Receiver.last_data_offset
    last_message_offset,  \* Receiver.last_message_offset (set by receive only)
    pc,                   \* position of the driver
    p,                    \* the driver's local p: the packet last produced
    ack,                  \* the driver's local ack: the last value rx.receive returned
    result,               \* rx.get_received_data() as read after the loop
    op,                   \* history: the operation the last step called
    rounds,               \* history: iterations of the driver loop started
    faults,               \* history: kinds of fault the driver has injected
    ackLog,               \* history: the acknowledgments a direct caller passed to tx.receive
    prev,                 \* history: packet produced since the last positive ack
    acceptedAt,           \* history: message_counter when rx last accepted
    offsetBefore          \* history: data_offset at which rx last wrote

txvars == <<payload, message_counter>>
rxvars == <<received_data, data_offset, last_message_num, last_data_offset,
            last_message_offset>>
drvars == <<pc, p, ack, result>>
hvars == <<op, rounds, faults, ackLog, prev, acceptedAt, offsetBefore>>
vars == <<txvars, rxvars, drvars, hvars>>

----------------------------------------------------------------------------
\* Bounds of the model.
MaxLen == 7          \* longest payload
BufferSize == 4      \* Receiver(buffer_size)
MaxRounds == 6       \* driver loop iterations explored
MaxAcks == 3         \* tx.receive calls explored when called on its own
MaxOffset == 3       \* rx.receive is not called on its own past this data_offset

\* Program constants.
PACKET_DATA_SIZE == 3
None == 0            \* the placeholder of an unwritten list cell
Unset == -1          \* an attribute or local that has no value yet

Correct == "correct"
Incorrect == "incorrect!"

Byte == {1, 2}           \* the byte values payloads and fragments are drawn from

Min(a, b) == IF a < b THEN a ELSE b
Max(a, b) == IF a > b THEN a ELSE b

\* Python s[a:b] for 0 <= a, 0 <= b.
Slice(s, a, b) ==
    LET lo == Min(a, Len(s))
        hi == Max(lo, Min(b, Len(s)))
    IN [i \in 1..(hi - lo) |-> s[lo + i]]

\* Python list after  list[a:b] = data  for 0 <= a, 0 <= b.
SliceAssign(list, a, b, data) ==
    LET lo == Min(a, Len(list))
        hi == Max(lo, Min(b, Len(list)))
    IN Slice(list, 0, lo) \o data \o Slice(list, hi, Len(list))

SeqsUpTo(S, n) == UNION {[1..k -> S] : k \in 0..n}

Packet(message_num, data_len, data, checksum) ==
    [message_num |-> message_num, data_len |-> data_len, data |-> data,
     checksum |-> checksum]

Ack(message_num, nack) == [message_num |-> message_num, nack |-> nack]

NoPacket == Packet(Unset, 0, <<>>, "")
NoAck == Ack(Unset, FALSE)

----------------------------------------------------------------------------
\* Transmitter

\* next_packet with the end of the slice one byte short
next_packet_short ==
    LET offset == message_counter * PACKET_DATA_SIZE
        data_to_send ==
            Slice(payload, offset,
                  Min(offset + PACKET_DATA_SIZE - 1, Len(payload)))
    IN Packet(message_counter % 2, Len(data_to_send), data_to_send, Correct)

\* next_packet with a message number that does not alternate
next_packet_samebit ==
    LET offset == message_counter * PACKET_DATA_SIZE
        data_to_send ==
            Slice(payload, offset, Min(offset + PACKET_DATA_SIZE, Len(payload)))
    IN Packet(0, Len(data_to_send), data_to_send, Correct)

\* next_packet that declares a full fragment whatever the slice holds
next_packet_fixedlen ==
    LET offset == message_counter * PACKET_DATA_SIZE
        data_to_send ==
            Slice(payload, offset, Min(offset + PACKET_DATA_SIZE, Len(payload)))
    IN Packet(message_counter % 2, PACKET_DATA_SIZE, data_to_send, Correct)

\* Transmitter.next_packet
next_packet ==
    LET offset == message_counter * PACKET_DATA_SIZE
        data_to_send ==
            Slice(payload, offset, Min(offset + PACKET_DATA_SIZE, Len(payload)))
    IN Packet(message_counter % 2, Len(data_to_send), data_to_send, Correct)

\* done with >= for >
done_geq == message_counter * PACKET_DATA_SIZE >= Len(payload)

\* Transmitter.done
done == message_counter * PACKET_DATA_SIZE > Len(payload)

\* Transmitter.receive that advances on a nack too
CounterAfter_any(a) == message_counter + 1

\* Transmitter.receive that checks the message number (the TODO of line 47)
CounterAfter_checked(a) ==
    IF ~a.nack /\ a.message_num = message_counter % 2
    THEN message_counter + 1
    ELSE message_counter

\* Transmitter.receive with the test of line 48 inverted
CounterAfter_inverted(a) ==
    IF a.nack THEN message_counter + 1 ELSE message_counter

\* Transmitter.receive that steps back one packet on a nack
CounterAfter_goback(a) ==
    IF ~a.nack THEN message_counter + 1
    ELSE IF message_counter > 0 THEN message_counter - 1 ELSE 0

\* Transmitter.receive: the counter after the call
CounterAfter(a) == IF ~a.nack THEN message_counter + 1 ELSE message_counter

----------------------------------------------------------------------------
\* Receiver

\* Receiver.receive, lines 62-64: data_offset after the duplicate test
RolledBack(packet) ==
    IF packet.message_num = last_message_num THEN last_data_offset ELSE data_offset

\* the tests of receive without the checksum test
Rejected_lenonly(packet) == packet.data_len # Len(packet.data)

\* the tests of receive with a duplicate message number rejected as well
Rejected_dup(packet) ==
    \/ packet.data_len # Len(packet.data)
    \/ packet.checksum # Correct
    \/ packet.message_num = last_message_num

\* Receiver.receive, lines 66-71: the two tests that return a nack
Rejected(packet) ==
    packet.data_len # Len(packet.data) \/ packet.checksum # Correct

\* the write of receive as an append to the list
Written_append(packet, offset) == received_data \o packet.data

\* the write of receive one cell too far
Written_shifted(packet, offset) ==
    SliceAssign(received_data, offset + 1, offset + 1 + packet.data_len,
                packet.data)

\* Receiver.receive, lines 73-75: the list after the slice assignment
Written(packet, offset) ==
    SliceAssign(received_data, offset, offset + packet.data_len, packet.data)

\* Receiver.receive, line 77: the attribute the offset before the write goes to
Recorded(offset) ==
    /\ last_message_offset' = offset
    /\ UNCHANGED last_data_offset

\* Receiver.receive
RxReceive(packet) ==
    LET offset == RolledBack(packet) IN
    IF Rejected(packet)
    THEN /\ data_offset' = offset
         /\ UNCHANGED <<received_data, last_message_num, last_data_offset,
                        last_message_offset>>
         /\ ack' = Ack(packet.message_num, TRUE)
         /\ UNCHANGED <<acceptedAt, offsetBefore>>
    ELSE /\ received_data' = Written(packet, offset)
         /\ last_message_num' = packet.message_num
         /\ Recorded(offset)
         /\ data_offset' = offset + packet.data_len
         /\ ack' = Ack(packet.message_num, FALSE)
         /\ acceptedAt' = message_counter
         /\ offsetBefore' = offset

\* Receiver.get_received_data; bytes() raises TypeError when a cell is None
get_received_data == Slice(received_data, 0, data_offset)

\* Transmitter.receive
TxReceive(a) ==
    /\ message_counter' = CounterAfter(a)
    /\ prev' = IF a.nack THEN prev ELSE NoPacket
    /\ UNCHANGED payload

----------------------------------------------------------------------------
\* Initial states: Transmitter(payload), Receiver(BufferSize), no call made.

Init ==
    /\ payload \in SeqsUpTo(Byte, MaxLen)
    /\ message_counter = 0
    /\ received_data = [i \in 1..BufferSize |-> None]
    /\ data_offset = 0
    /\ last_message_num = 1
    /\ last_data_offset = 0
    /\ last_message_offset = Unset
    /\ pc = "loop"
    /\ p = NoPacket
    /\ ack = NoAck
    /\ result = <<>>
    /\ op = "init"
    /\ rounds = 0
    /\ faults = {}
    /\ ackLog = <<>>
    /\ prev = NoPacket
    /\ acceptedAt = Unset
    /\ offsetBefore = Unset

----------------------------------------------------------------------------
\* The driver: while not tx.done(): p = tx.next_packet(); ack = rx.receive(p);
\* tx.receive(ack), with the faults the tests inject.

\* p = tx.next_packet()
Produce ==
    /\ pc = "loop"
    /\ ~done
    /\ rounds < MaxRounds
    /\ p' = next_packet
    /\ prev' = next_packet
    /\ pc' = "sent"
    /\ op' = "next_packet"
    /\ rounds' = rounds + 1
    /\ UNCHANGED <<txvars, rxvars, ack, result, faults, ackLog, acceptedAt,
                   offsetBefore>>

\* test_lost_packet: the packet is produced and never delivered
LosePacket ==
    /\ pc = "sent"
    /\ pc' = "loop"
    /\ op' = "lose_packet"
    /\ faults' = faults \cup {"packet"}
    /\ UNCHANGED <<txvars, rxvars, p, ack, result, rounds, ackLog, prev,
                   acceptedAt, offsetBefore>>

\* ack = rx.receive(p)
Deliver ==
    /\ pc = "sent"
    /\ RxReceive(p)
    /\ pc' = "acked"
    /\ op' = "rx_receive"
    /\ UNCHANGED <<txvars, p, result, rounds, faults, ackLog, prev>>

\* test_incorrect_checksum: p.checksum = b"incorrect!"; ack = rx.receive(p)
DeliverCorrupt ==
    /\ pc = "sent"
    /\ p' = [p EXCEPT !.checksum = Incorrect]
    /\ RxReceive(p')
    /\ pc' = "acked"
    /\ op' = "rx_receive"
    /\ faults' = faults \cup {"checksum"}
    /\ UNCHANGED <<txvars, result, rounds, ackLog, prev>>

\* tx.receive(ack)
DeliverAck ==
    /\ pc = "acked"
    /\ TxReceive(ack)
    /\ pc' = "loop"
    /\ op' = "tx_receive"
    /\ UNCHANGED <<rxvars, p, ack, result, rounds, faults, ackLog, acceptedAt,
                   offsetBefore>>

\* test_lost_ack: the acknowledgment is never passed to tx.receive
LoseAck ==
    /\ pc = "acked"
    /\ pc' = "loop"
    /\ op' = "lose_ack"
    /\ faults' = faults \cup {"ack"}
    /\ UNCHANGED <<txvars, rxvars, p, ack, result, rounds, ackLog, prev,
                   acceptedAt, offsetBefore>>

\* the loop ends; the test reads rx.get_received_data()
Finish ==
    /\ pc = "loop"
    /\ done
    /\ result' = get_received_data
    /\ pc' = "done"
    /\ op' = "get_received_data"
    /\ UNCHANGED <<txvars, rxvars, p, ack, rounds, faults, ackLog, prev,
                   acceptedAt, offsetBefore>>

Next ==
    \/ Produce
    \/ LosePacket
    \/ Deliver
    \/ DeliverCorrupt
    \/ DeliverAck
    \/ LoseAck
    \/ Finish

Spec == Init /\ [][Next]_vars

----------------------------------------------------------------------------
\* The Transmitter called directly, with any acknowledgment in any order.

Acks == {Ack(n, b) : n \in {0, 1}, b \in BOOLEAN}

TxNextPacketCall ==
    /\ p' = next_packet
    /\ op' = "next_packet"
    /\ UNCHANGED <<txvars, rxvars, pc, ack, result, rounds, faults, ackLog, prev,
                   acceptedAt, offsetBefore>>

\* tx.done(); pc holds what it returned
TxDoneCall ==
    /\ pc' = IF done THEN "done" ELSE "loop"
    /\ op' = "done"
    /\ UNCHANGED <<txvars, rxvars, p, ack, result, rounds, faults, ackLog, prev,
                   acceptedAt, offsetBefore>>

TxReceiveCall(a) ==
    /\ Len(ackLog) < MaxAcks
    /\ TxReceive(a)
    /\ ackLog' = Append(ackLog, a)
    /\ op' = "tx_receive"
    /\ UNCHANGED <<rxvars, pc, p, ack, result, rounds, faults, acceptedAt,
                   offsetBefore>>

NextTx ==
    \/ TxNextPacketCall
    \/ TxDoneCall
    \/ \E a \in Acks : TxReceiveCall(a)

SpecTx == Init /\ [][NextTx]_vars

----------------------------------------------------------------------------
\* The Receiver called directly, with any packet in any order.

\* A declared length other than the fragment's: longer, or 0 for a full fragment.
WrongLen(d) == (Len(d) + 1) % (PACKET_DATA_SIZE + 1)

Packets ==
    {Packet(n, IF w THEN WrongLen(d) ELSE Len(d), d, c) :
        n \in {0, 1}, w \in BOOLEAN, d \in SeqsUpTo(Byte, PACKET_DATA_SIZE),
        c \in {Correct, Incorrect}}

InitRx == Init /\ payload = <<>>

RxReceiveCall(packet) ==
    /\ data_offset <= MaxOffset
    /\ p' = packet
    /\ RxReceive(packet)
    /\ op' = "rx_receive"
    /\ UNCHANGED <<txvars, pc, result, rounds, faults, ackLog, prev>>

NextRx == \E packet \in Packets : RxReceiveCall(packet)

SpecRx == InitRx /\ [][NextRx]_vars

----------------------------------------------------------------------------
\* Claims about the driver (Spec).

NoFault == faults = {}

\* C1: round trip under no loss. When the driver loop has run to tx.done()
\* with every packet and every acknowledgment delivered intact,
\* rx.get_received_data() equals the payload, for every payload length
\* (multiples of PACKET_DATA_SIZE and the empty payload included; payloads
\* longer than the buffer too, since the list grows).
C1_RoundTrip == (pc = "done" /\ NoFault) => result = payload

C1_Witness ==
    /\ pc = "done" /\ NoFault
    /\ Len(payload) = PACKET_DATA_SIZE /\ Len(payload) <= BufferSize
    /\ result = payload

\* C2: lost-acknowledgment idempotence. When the only faults of a run are
\* dropped acknowledgments, the loop still ends with get_received_data()
\* equal to the payload.
C2_LostAckIdempotent == (pc = "done" /\ faults = {"ack"}) => result = payload

\* C3: lost-packet convergence. Right after the driver has discarded a
\* produced packet the Transmitter would produce that same packet again (its
\* counter has not advanced), and a run whose only faults are discarded
\* packets ends with get_received_data() equal to the payload.
C3_LostPacketConvergence ==
    /\ (op = "lose_packet") => (next_packet = p /\ prev = p)
    /\ (pc = "done" /\ faults = {"packet"}) => result = payload

C3_Witness ==
    /\ pc = "done" /\ faults = {"packet"}
    /\ Len(payload) > PACKET_DATA_SIZE
    /\ rounds >= message_counter + 2
    /\ result = payload

\* C5: recovery from corruption. A packet delivered with a checksum other
\* than b"correct" is answered with a nack; after tx.receive of a nack the
\* Transmitter would produce the same packet again (its counter has not
\* advanced); the packet delivered with the correct checksum is accepted; and
\* a run whose only faults are corrupted checksums, every acknowledgment
\* being delivered, ends with get_received_data() equal to the payload.
C5_CorruptionRecovery ==
    /\ (pc = "acked" /\ p.checksum # Correct) => ack.nack
    /\ (op = "tx_receive" /\ ack.nack) =>
           next_packet = [p EXCEPT !.checksum = Correct]
    /\ (pc = "acked" /\ p.checksum = Correct /\ faults \subseteq {"checksum"}) =>
           ~ack.nack
    /\ (pc = "done" /\ faults = {"checksum"}) => result = payload

C5_Witness ==
    /\ pc = "done" /\ faults = {"checksum"}
    /\ Len(payload) > PACKET_DATA_SIZE
    /\ rounds >= message_counter + 2
    /\ result = payload

\* C6: fragment-boundary completion. The loop body runs only while
\* counter * 3 <= len(payload) and the loop ends only when counter * 3 >
\* len(payload); with no fault a payload of length L takes L/3 + 1 rounds
\* when 3 divides L, the last round carrying an empty fragment of declared
\* length 0 that is accepted, and ceil(L/3) rounds otherwise, none of which
\* carries an empty fragment.
C6_FragmentBoundary ==
    LET L == Len(payload) IN
    /\ (pc = "done") => message_counter * PACKET_DATA_SIZE > L
    /\ (pc \in {"sent", "acked"}) => ~(message_counter * PACKET_DATA_SIZE > L)
    /\ (pc = "done" /\ NoFault) =>
           rounds = IF L % PACKET_DATA_SIZE = 0
                    THEN L \div PACKET_DATA_SIZE + 1
                    ELSE (L + PACKET_DATA_SIZE - 1) \div PACKET_DATA_SIZE
    /\ (pc = "done" /\ NoFault /\ L % PACKET_DATA_SIZE = 0) =>
           (p.data_len = 0 /\ p.data = <<>> /\ ~ack.nack)
    /\ (NoFault /\ L % PACKET_DATA_SIZE # 0 /\ p # NoPacket) => p.data # <<>>

C6_Witness ==
    /\ pc = "done" /\ NoFault
    /\ Len(payload) = 2 * PACKET_DATA_SIZE
    /\ rounds = 3
    /\ p.data_len = 0

\* C7 as claimed: every packet the Receiver accepts has a message number
\* other than that of the packet accepted before it (0 for the first), and
\* last_message_num is the accepted packet's number after the accept.
C7_Alternation ==
    [][(op' = "rx_receive" /\ ~ack'.nack) =>
           /\ p'.message_num # last_message_num
           /\ last_message_num' = p'.message_num]_vars

\* C7 as amended: the first accepted packet has number 0, last_message_num is
\* the accepted packet's number after each accept, and an accepted packet's
\* number differs from that of the packet accepted before it unless it is
\* the same packet of the Transmitter delivered again (the acknowledgment
\* of its earlier delivery was dropped).
C7_AlternationOrRetransmission ==
    [][(op' = "rx_receive" /\ ~ack'.nack) =>
           /\ acceptedAt = Unset => p'.message_num = 0
           /\ last_message_num' = p'.message_num
           /\ \/ p'.message_num # last_message_num
              \/ acceptedAt = message_counter]_vars

C7_Witness ==
    /\ op = "rx_receive" /\ ~ack.nack
    /\ faults = {"ack"}
    /\ message_counter = 2
    /\ p.message_num = 0 /\ last_message_num = 0
    /\ rounds = 4

\* C8: next_packet is a pure query. A call leaves payload and
\* message_counter unchanged, and returns the packet the previous call
\* returned unless a positive acknowledgment was passed to tx.receive in
\* between (nacks, dropped packets and dropped acknowledgments change
\* nothing).
C8_PureQuery ==
    [][(op' = "next_packet") =>
           /\ UNCHANGED txvars
           /\ prev # NoPacket => p' = prev]_vars

C8_Witness ==
    /\ op = "next_packet"
    /\ faults = {"packet", "checksum"}
    /\ message_counter = 1 /\ rounds = 4
    /\ p.data # <<>>

\* C10: rollback offset invariant. Once a packet has been accepted,
\* last_data_offset (the offset the duplicate test rolls back to) is the
\* offset at which the last accepted fragment was written: data_offset
\* minus its data_len right after the accept.
C10_RollbackOffset ==
    acceptedAt # Unset =>
        /\ last_data_offset = offsetBefore
        /\ (op = "rx_receive" /\ ~ack.nack) =>
               last_data_offset = data_offset - p.data_len

----------------------------------------------------------------------------
\* Claims about the Transmitter called directly (SpecTx).

Positive(log) == {i \in 1..Len(log) : ~log[i].nack}

\* C9: message_counter is the number of positive acknowledgments passed to
\* tx.receive so far, whatever their message_num and however often the same
\* one is passed; nacks, next_packet and done leave it alone.
C9_CounterCountsPositiveAcks == message_counter = Cardinality(Positive(ackLog))

C9_Witness ==
    /\ Len(ackLog) = 2
    /\ ackLog[1] = Ack(1, FALSE) /\ ackLog[2] = ackLog[1]
    /\ message_counter = 2

----------------------------------------------------------------------------
\* Claims about the Receiver called directly (SpecRx).

\* C4: a call of rx.receive that returns a nack leaves received_data,
\* data_offset, last_message_num and last_data_offset as they were.
C4_NackLeavesState ==
    [][(op' = "rx_receive" /\ ack'.nack) => UNCHANGED rxvars]_vars


\* C11: duplicate delivery is idempotent at the Receiver. When rx.receive is
\* called twice in a row with the same well-formed packet of correct
\* checksum, both calls return a positive acknowledgment and the second
\* leaves data_offset and get_received_data() as the first left them.
C11_DuplicateIdempotent ==
    [][(op = "rx_receive" /\ op' = "rx_receive" /\ p' = p /\ ~Rejected(p)) =>
           /\ ~ack.nack /\ ~ack'.nack
           /\ data_offset' = data_offset
           /\ get_received_data' = get_received_data]_vars

----------------------------------------------------------------------------
\* Further claims about the driver (Spec).

IsPrefix(s, t) == Len(s) <= Len(t) /\ \A i \in 1..Len(s) : s[i] = t[i]

\* C12: prefix invariant. In every state of a driver run, whatever packets
\* and acknowledgments were dropped or packets corrupted, get_received_data()
\* is a prefix of the payload and data_offset is min(3 * counter, len) (in
\* step with the Transmitter) or min(3 * (counter + 1), len) (one fragment
\* ahead of it).
C12_PrefixInvariant ==
    LET L == Len(payload)
        c == message_counter
    IN /\ IsPrefix(get_received_data, payload)
       /\ data_offset \in {Min(PACKET_DATA_SIZE * c, L),
                           Min(PACKET_DATA_SIZE * (c + 1), L)}


----------------------------------------------------------------------------
\* The driver under a fair lossy channel: faults are injected only while
\* enough of the MaxRounds iterations remain for the packets still to send,
\* an intact delivery and the delivery of its acknowledgment cannot be
\* put off forever.

RoundsNeeded == Len(payload) \div PACKET_DATA_SIZE + 1 - message_counter

FaultAllowed == rounds + RoundsNeeded <= MaxRounds

FairLosePacket == FaultAllowed /\ LosePacket

FairDeliverCorrupt == FaultAllowed /\ DeliverCorrupt

FairLoseAck == FaultAllowed /\ LoseAck

NextFair ==
    \/ Produce
    \/ FairLosePacket
    \/ Deliver
    \/ FairDeliverCorrupt
    \/ DeliverAck
    \/ FairLoseAck
    \/ Finish

FairSpec ==
    /\ Init
    /\ [][NextFair]_vars
    /\ WF_vars(Produce)
    /\ SF_vars(Deliver)
    /\ SF_vars(DeliverAck)
    /\ WF_vars(Finish)

\* C13: termination under a fair lossy driver. Whatever packets and
\* acknowledgments are dropped and checksums corrupted, if intact delivery
\* and acknowledgment delivery are not denied forever, tx.done() eventually
\* becomes true.
C13_Termination == <>done

C13_Witness ==
    /\ pc = "done" /\ done
    /\ faults = {"packet", "ack", "checksum"}
    /\ Len(payload) > PACKET_DATA_SIZE


----------------------------------------------------------------------------
\* Further claims about the driver (Spec).

\* C14: every packet next_packet returns is well-formed: message_num is
\* counter mod 2, data is payload[3*counter : min(3*counter + 3, len)] (at
\* most 3 bytes, empty past the end), data_len is len(data) and checksum is
\* b"correct"; and rx.receive never answers such a packet, delivered
\* unmodified, with a nack.
C14_WellFormedPackets ==
    LET q == next_packet
        start == PACKET_DATA_SIZE * message_counter
        left == Len(payload) - start
    IN /\ q.message_num \in {0, 1}
       /\ q.message_num = message_counter % 2
       /\ Len(q.data) = Max(0, Min(PACKET_DATA_SIZE, left))
       /\ \A i \in 1..Len(q.data) : q.data[i] = payload[start + i]
       /\ q.data_len = Len(q.data)
       /\ q.checksum = Correct
       /\ (pc = "sent") => p = q
       /\ (pc = "acked" /\ p.checksum = Correct) => ~ack.nack

C14_Witness ==
    /\ pc = "acked" /\ ~ack.nack
    /\ message_counter = 2
    /\ p = next_packet
    /\ p.data_len = 1 /\ p.message_num = 0
    /\ faults = {"packet", "ack", "checksum"}


----------------------------------------------------------------------------
\* Further claims about the Transmitter called directly (SpecTx).

\* C16: completion is stable. No call of next_packet, receive or done
\* decreases message_counter or changes payload, so once done() is true it
\* stays true.
C16_CompletionStable ==
    [][/\ message_counter' >= message_counter
       /\ payload' = payload
       /\ done => done']_vars

C16_Witness ==
    /\ pc = "done" /\ done
    /\ op = "tx_receive"
    /\ Len(ackLog) = 3
    /\ ~ackLog[1].nack /\ ackLog[2].nack /\ ackLog[3].nack
    /\ Len(payload) = 2

----------------------------------------------------------------------------
\* Further claims about the Receiver called directly (SpecRx).

\* C15: the acknowledgment rx.receive returns carries the packet's
\* message_num, and is positive exactly when data_len equals len(data) and
\* the checksum is b"correct" (neither the message number nor the duplicate
\* test rejects a packet).
C15_AckEchoesAndValidates ==
    (op = "rx_receive") =>
        /\ ack.message_num = p.message_num
        /\ ~ack.nack <=> (p.data_len = Len(p.data) /\ p.checksum = Correct)

C15_Witness ==
    /\ op = "rx_receive"
    /\ ack = Ack(1, FALSE)
    /\ p.message_num = 1 /\ p.data_len = 2
    /\ last_message_offset = 0 /\ data_offset = 2
    /\ Len(received_data) > 2 /\ received_data[3] \in Byte

\* C17: get_received_data() returns only bytes actually written. After any
\* calls of rx.receive every cell of received_data below data_offset holds a
\* byte of an accepted packet, never None, so get_received_data() has
\* length data_offset and bytes() does not raise.
C17_OnlyWrittenBytes ==
    /\ data_offset <= Len(received_data)
    /\ \A i \in 1..data_offset : received_data[i] \in Byte
    /\ Len(get_received_data) = data_offset
    /\ \A i \in 1..Len(get_received_data) : get_received_data[i] # None

C17_Witness ==
    /\ op = "rx_receive" /\ ack.nack
    /\ data_offset = 2
    /\ p.message_num # last_message_num
    /\ received_data[3] \in Byte
    /\ received_data[BufferSize] = None

\* C18: the buffer's capacity is fixed at construction. The length of
\* received_data is the constructed buffer_size and data_offset does not
\* exceed it, also after an accepted write whose range passes the end.
C18_CapacityFixed ==
    /\ Len(received_data) = BufferSize
    /\ data_offset <= BufferSize

====
